---- MODULE Spec2Model ----
(***************************************************************************)
(* Model of backend/app/server.py: the POST /runs endpoint.                *)
(*                                                                         *)
(* One request is followed from the parsing of its body to the end of its  *)
(* response.  A streaming request starts the background task               *)
(* consume_astream (the producer) and returns the async generator _stream  *)
(* (the consumer); the two communicate through the memory object stream    *)
(* owned by StreamMessagesHandler.  A non-streaming request adds           *)
(* agent.ainvoke to the response's background tasks and acknowledges.      *)
(*                                                                         *)
(* The agent (agent.astream / agent.ainvoke) and the event aggregator are  *)
(* external: every behaviour their interfaces allow is drawn               *)
(* nondeterministically; so is a cancellation of the task at one of its     *)
(* awaits.  app/stream.py is not part of the sources at                    *)
(* hand: the channel's operations follow the written specification         *)
(* (FIFO, bounded capacity, a write suspends while the channel is full,    *)
(* a read of a closed and drained channel reports end-of-channel).         *)
(***************************************************************************)
EXTENDS Integers, Sequences, FiniteSets, TLC

\* ---------------------------------------------------------------- bounds
MaxChunks == 3          \* chunks agent.astream yields in one run, at most
MaxCap == 1             \* largest channel capacity tried (0 = rendezvous)
MaxCallbackEvents == 2  \* callback events the aggregator records, at most

Chunks == {"A", "B"}
ExcTypes == {"TimeoutError", "ValueError"}
ExcMsgs == {"x", "secret"}
RunIds == {"run-1"}

VARIABLES
    req,                \* the request: jsonOk, inputOk, stream
    epc,                \* create_run_endpoint's position
    response,           \* what the endpoint returned or raised
    invoke,             \* the non-streaming background invocation
    heap,               \* the dict objects: the stored config and the built one
    config,             \* the dict `config` names, once built
    tpc,                \* consume_astream's position
    cur,                \* consume_astream: the item of the pending send
    produced,           \* chunks agent.astream has yielded, in order
    outcome,            \* how agent.astream ended
    raised,             \* the exception agent.astream raised, if any
    cancelled,          \* the task was cancelled at one of its awaits
    callback_events,    \* event_aggregator.callback_events
    cap,                \* the channel's capacity
    buf,                \* items written and not yet read
    sendClosed,         \* send_stream.aclose() has run
    closes,             \* how many times send_stream.aclose() was called
    written,            \* every item written to the channel, in order
    cpc,                \* _stream's position
    chunk,              \* _stream: the loop variable
    has_sent_metadata,  \* _stream's flag
    events,             \* the events _stream has yielded, in order
    streamExc,          \* the exception _stream ended with
    awaits,             \* how many times `await task` completed
    readLog             \* every item _stream has read, in order

vars == <<req, epc, response, invoke, heap, config, tpc, cur, produced, outcome, raised,
          cancelled, callback_events, cap, buf, sendClosed, closes, written,
          cpc, chunk, has_sent_metadata, events, streamExc, awaits, readLog>>

endpointVars == <<req, epc, response, invoke, heap, config>>
producerVars == <<tpc, cur, produced, outcome, raised, cancelled>>
channelVars == <<cap, buf, sendClosed, closes, written>>
consumerVars == <<cpc, chunk, has_sent_metadata, events, streamExc, awaits,
                  readLog>>

\* ----------------------------------------------------------------- values
NoItem == [kind |-> "none"]
NoExc == [kind |-> "none"]
ChunkItem(c) == [kind |-> "chunk", val |-> c]
\* An instance of Exception raised by the agent.
Exc(t, m) == [kind |-> "exc", type |-> t, msg |-> m]
\* A BaseException that is no Exception (CancelledError, KeyboardInterrupt).
BaseExc == [kind |-> "base", type |-> "CancelledError", msg |-> ""]
AllExc == {Exc(t, m) : t \in ExcTypes, m \in ExcMsgs}

\* The exception the task ends with: the BaseException that passed the
\* except clause, if any.
TaskExc == IF cancelled \/ outcome = "base" THEN BaseExc ELSE NoExc

\* isinstance(chunk, BaseException)
IsBaseException(it) == it.kind \in {"exc", "base"}

ValidationError == [kind |-> "RequestValidationError"]
Ack == [status |-> "ok"]
EventStream == [kind |-> "EventSourceResponse"]
NoResponse == [kind |-> "pending"]

\* ------------------------------------------------------- dict objects
\* A dict is a function from its keys; heap maps each dict object to its
\* content, and a dict held inside another is held by name.
\* {**a, **b}: the keys of both, b's values winning
DictMerge(a, b) ==
    [k \in DOMAIN a \cup DOMAIN b |-> IF k \in DOMAIN b THEN b[k] ELSE a[k]]
\* o[k] = v on the object o
DictSet(h, o, k, v) == [h EXCEPT ![o] = DictMerge(h[o], [x \in {k} |-> v])]
\* a dict display creates the object o with content d
Alloc(h, o, d) == DictMerge(h, [x \in {o} |-> d])

\* assistant["config"] as storage returns it; its "configurable" dict holds
\* "model" and the keys ks, with values of its own
StoredHeap(ks) ==
    [o \in {"cfg0", "conf0"} |->
        IF o = "cfg0"
           THEN [configurable |-> "conf0", recursion_limit |-> "25"]
           ELSE [k \in ks \cup {"model"} |-> "stored"]]
RequestKeys == {"user_id", "thread_id", "assistant_id"}

\* A variant that copies the outer dict only and writes the ids into the
\* stored "configurable" dict.
NewConfigShallow(h, stored, tid, aid) ==
    LET inner == h[stored]["configurable"]
    IN  DictSet(DictSet(Alloc(h, "cfg1", h[stored]), inner, "thread_id", tid),
                inner, "assistant_id", aid)

\* {**assistant["config"],
\*  "configurable": {**assistant["config"]["configurable"],
\*                   "thread_id": ..., "assistant_id": ...}}
NewConfig(h, stored, tid, aid) ==
    LET inner == DictMerge(h[h[stored]["configurable"]],
                           [thread_id |-> tid, assistant_id |-> aid])
        h1 == Alloc(h, "conf1", inner)
    IN  Alloc(h1, "cfg1", DictMerge(h[stored], [configurable |-> "conf1"]))

\* config["configurable"]["user_id"] = request.cookies["opengpts_user_id"]
attach_user_id_to_config(h, cfg, cookie) ==
    DictSet(h, h[cfg]["configurable"], "user_id", cookie)

\* ------------------------------------------------------------ the events
\* serializer.dumps(chunk).decode("utf-8"): the chunk as a JSON text
Serialize(c) == [json |-> c]
\* orjson.dumps({"status_code": 500, "message": "Internal Server Error"})
ErrorPayloadLeaky(e) == [status_code |-> 500, message |-> e.msg]
ErrorPayload(e) == [status_code |-> 500, message |-> "Internal Server Error"]
\* _get_base_run_id_as_str(event_aggregator): the run id of the first event
BaseRunId(cbs) == Head(cbs)

ErrorEvent(e) == [event |-> "error", data |-> ErrorPayload(e)]
MetadataEvent(cbs) == [event |-> "metadata", data |-> [run_id |-> BaseRunId(cbs)]]
DataEvent(c) == [event |-> "data", data |-> Serialize(c)]
EndEvent == [event |-> "end"]

\* `not has_sent_metadata and event_aggregator.callback_events`
MetadataDueNoFlag(sent, cbs) == cbs # <<>>
MetadataDue(sent, cbs) == ~sent /\ cbs # <<>>

\* ------------------------------------------------------------ the channel
\* A write completes when the buffer has room, or when the reader is waiting
\* in receive (the item is handed to it); otherwise the writer stays suspended.
ReaderWaiting == cpc = "recv"
CanSend == ~sendClosed /\ (Len(buf) < cap \/ (buf = <<>> /\ ReaderWaiting))
ChannelSend(it) == buf' = Append(buf, it) /\ written' = Append(written, it)
\* A read takes the oldest item; with nothing buffered and the writer closed
\* it reports end-of-channel.
CanReceive == buf # <<>>
EndOfStream == buf = <<>> /\ sendClosed

\* ------------------------------------------------------------------ Init
\* Everything but the request and the stored configuration.
InitRun ==
    /\ epc = "json"
    /\ config = "none"
    /\ response = NoResponse
    /\ invoke = "none"
    /\ tpc = "not_created"
    /\ cur = NoItem
    /\ produced = <<>>
    /\ outcome = "none"
    /\ raised = NoExc
    /\ cancelled = FALSE
    /\ callback_events = <<>>
    /\ cap \in 0..MaxCap
    /\ buf = <<>>
    /\ sendClosed = FALSE
    /\ closes = 0
    /\ written = <<>>
    /\ cpc = "not_started"
    /\ chunk = NoItem
    /\ has_sent_metadata = FALSE
    /\ events = <<>>
    /\ streamExc = NoExc
    /\ awaits = 0
    /\ readLog = <<>>

Requests(users) ==
    [jsonOk : BOOLEAN, inputOk : BOOLEAN, stream : BOOLEAN,
     user_id : users, thread_id : {"t1"}, assistant_id : {"a1"}]

Init ==
    /\ req \in Requests({"u1"})
    /\ heap = StoredHeap(RequestKeys)
    /\ InitRun

\* The same start with every stored configuration and two users.
ConfigInit ==
    /\ req \in Requests({"u1", "u2"})
    /\ \E ks \in SUBSET RequestKeys : heap = StoredHeap(ks)
    /\ InitRun

\* ------------------------------------------------- create_run_endpoint
\* body = await request.json(); JSONDecodeError -> RequestValidationError
ParseBody ==
    /\ epc = "json"
    /\ IF req.jsonOk
          THEN epc' = "build" /\ response' = response
          ELSE epc' = "rejected" /\ response' = ValidationError
    /\ UNCHANGED <<req, heap, config, invoke, producerVars, callback_events, channelVars,
                   consumerVars>>

\* assistant = get_assistant(...); config = attach_user_id_to_config(
\*     {**assistant["config"], "configurable": {...}}, request)
BuildConfig ==
    /\ epc = "build"
    /\ heap' = attach_user_id_to_config(
                  NewConfig(heap, "cfg0", req.thread_id, req.assistant_id),
                  "cfg1", req.user_id)
    /\ config' = "cfg1"
    /\ epc' = "validate"
    /\ UNCHANGED <<req, response, invoke, producerVars, callback_events,
                   channelVars, consumerVars>>

\* A variant that lets an input through whatever the validation says.
ValidateInputIgnored ==
    /\ epc = "validate"
    /\ epc' = "branch"
    /\ UNCHANGED <<req, heap, config, response, invoke, producerVars, callback_events,
                   channelVars, consumerVars>>

\* agent.get_input_schema(config).validate(body["input"])
ValidateInput ==
    /\ epc = "validate"
    /\ IF req.inputOk
          THEN epc' = "branch" /\ response' = response
          ELSE epc' = "rejected" /\ response' = ValidationError
    /\ UNCHANGED <<req, heap, config, invoke, producerVars, callback_events, channelVars,
                   consumerVars>>

\* if body["stream"]: the handler and the aggregator are created and put in
\* config["callbacks"], the task is created from consume_astream() and
\* EventSourceResponse(_stream()) returned.
StartStreaming ==
    /\ epc = "branch"
    /\ req.stream
    /\ heap' = DictSet(heap, config, "callbacks", "streamer, event_aggregator")
    /\ tpc' = "iter"
    /\ outcome' = "running"
    /\ cpc' = "recv"
    /\ response' = EventStream
    /\ epc' = "responded"
    /\ UNCHANGED <<req, invoke, config, cur, produced, raised, cancelled,
                   callback_events,
                   channelVars, chunk, has_sent_metadata, events, streamExc,
                   awaits, readLog>>

\* A variant that waits for the invocation before it answers.
AddBackgroundInvokeAwaited ==
    /\ epc = "branch"
    /\ ~req.stream
    /\ \E r \in {"ok", "failed"} :
          /\ invoke' = r
          /\ response' = IF r = "ok" THEN Ack ELSE [kind |-> "InternalServerError"]
    /\ epc' = "responded"
    /\ UNCHANGED <<req, heap, config, producerVars, callback_events, channelVars,
                   consumerVars>>

\* else: background_tasks.add_task(agent.ainvoke, input_, config);
\*       return {"status": "ok"}
AddBackgroundInvoke ==
    /\ epc = "branch"
    /\ ~req.stream
    /\ invoke' = "scheduled"
    /\ response' = Ack
    /\ epc' = "responded"
    /\ UNCHANGED <<req, heap, config, producerVars, callback_events, channelVars,
                   consumerVars>>

\* The response's background tasks run once the response has been sent.
BackgroundInvokeStart ==
    /\ invoke = "scheduled"
    /\ epc = "responded"
    /\ invoke' = "running"
    /\ UNCHANGED <<req, heap, config, epc, response, producerVars, callback_events,
                   channelVars, consumerVars>>

\* agent.ainvoke returns or raises; nobody reads its result.
BackgroundInvokeEnd ==
    /\ invoke = "running"
    /\ invoke' \in {"ok", "failed"}
    /\ UNCHANGED <<req, heap, config, epc, response, producerVars, callback_events,
                   channelVars, consumerVars>>

\* ------------------------------------------------------ consume_astream
\* async for chunk in agent.astream(input_, config): the next chunk arrives
AstreamNext(c) ==
    /\ tpc = "iter"
    /\ Len(produced) < MaxChunks
    /\ produced' = Append(produced, c)
    /\ cur' = ChunkItem(c)
    /\ tpc' = "send"
    /\ UNCHANGED <<endpointVars, outcome, raised, cancelled,
                   callback_events,
                   channelVars, consumerVars>>

\* agent.astream is exhausted: the try block ends, finally runs next
AstreamStop ==
    /\ tpc = "iter"
    /\ outcome' = "ok"
    /\ tpc' = "aclose"
    /\ UNCHANGED <<endpointVars, cur, produced, raised, cancelled,
                   callback_events,
                   channelVars, consumerVars>>

\* agent.astream raises an Exception: `except Exception as e` takes it
AstreamRaise(e) ==
    /\ tpc = "iter"
    /\ outcome' = "exc"
    /\ raised' = e
    /\ cur' = e
    /\ tpc' = "send_exc"
    /\ UNCHANGED <<endpointVars, produced, cancelled, callback_events, channelVars,
                   consumerVars>>

\* A variant without the finally clause: the BaseException leaves the task
\* at once.
AstreamRaiseBaseNoFinally ==
    /\ tpc = "iter"
    /\ outcome' = "base"
    /\ raised' = BaseExc
    /\ tpc' = "done"
    /\ UNCHANGED <<endpointVars, cur, produced, cancelled,
                   callback_events, channelVars, consumerVars>>

\* agent.astream raises a BaseException that is no Exception: the except
\* clause does not match, finally runs and the exception leaves the task
AstreamRaiseBase ==
    /\ tpc = "iter"
    /\ outcome' = "base"
    /\ raised' = BaseExc
    /\ tpc' = "aclose"
    /\ UNCHANGED <<endpointVars, cur, produced, cancelled,
                   callback_events,
                   channelVars, consumerVars>>

\* A variant that drops the chunk when the channel cannot take it.
SendChunkDropping ==
    /\ tpc = "send"
    /\ IF CanSend THEN ChannelSend(cur) ELSE UNCHANGED <<buf, written>>
    /\ cur' = NoItem
    /\ tpc' = "iter"
    /\ UNCHANGED <<endpointVars, produced, outcome, raised, cancelled,
                   callback_events, cap, sendClosed, closes, consumerVars>>

\* await streamer.send_stream.send(chunk)
SendChunk ==
    /\ tpc = "send"
    /\ CanSend
    /\ ChannelSend(cur)
    /\ cur' = NoItem
    /\ tpc' = "iter"
    /\ UNCHANGED <<endpointVars, produced, outcome, raised, cancelled,
                   callback_events,
                   cap, sendClosed, closes, consumerVars>>

\* A variant whose except clause is inside the loop: the iteration goes on
\* after the failure marker.
SendFailureAndGoOn ==
    /\ tpc = "send_exc"
    /\ CanSend
    /\ ChannelSend(cur)
    /\ cur' = NoItem
    /\ tpc' = "iter"
    /\ UNCHANGED <<endpointVars, produced, outcome, raised, cancelled,
                   callback_events, cap, sendClosed, closes, consumerVars>>

\* await streamer.send_stream.send(e)
SendFailure ==
    /\ tpc = "send_exc"
    /\ CanSend
    /\ ChannelSend(cur)
    /\ cur' = NoItem
    /\ tpc' = "aclose"
    /\ UNCHANGED <<endpointVars, produced, outcome, raised, cancelled,
                   callback_events,
                   cap, sendClosed, closes, consumerVars>>

\* The task is cancelled while it is suspended in send(chunk): CancelledError
\* is raised at line 118, the except clause does not match, finally runs.
\* The chunk of the pending write is not written.
CancelSend ==
    /\ tpc = "send"
    /\ cancelled' = TRUE
    /\ outcome' = "cancelled"
    /\ cur' = NoItem
    /\ tpc' = "aclose"
    /\ UNCHANGED <<endpointVars, produced, raised, callback_events,
                   channelVars, consumerVars>>

\* The task is cancelled while it is suspended in send(e): the write of the
\* failure marker fails with CancelledError, finally runs.
CancelSendFailure ==
    /\ tpc = "send_exc"
    /\ cancelled' = TRUE
    /\ cur' = NoItem
    /\ tpc' = "aclose"
    /\ UNCHANGED <<endpointVars, produced, outcome, raised, callback_events,
                   channelVars, consumerVars>>

\* The task is cancelled while it is suspended in aclose(), the channel
\* already closed: CancelledError leaves the task.
CancelAclose ==
    /\ tpc = "closed"
    /\ cancelled' = TRUE
    /\ tpc' = "done"
    /\ UNCHANGED <<endpointVars, cur, produced, outcome, raised,
                   callback_events, channelVars, consumerVars>>

\* A variant whose finally clause is missing: the channel stays open.
AcloseSkipped ==
    /\ tpc = "aclose"
    /\ tpc' = "closed"
    /\ UNCHANGED <<endpointVars, cur, produced, outcome, raised, cancelled,
                   callback_events, channelVars, consumerVars>>

\* finally: await streamer.send_stream.aclose()
Aclose ==
    /\ tpc = "aclose"
    /\ sendClosed' = TRUE
    /\ closes' = closes + 1
    /\ tpc' = "closed"
    /\ UNCHANGED <<endpointVars, cur, produced, outcome, raised, cancelled,
                   callback_events, cap, buf, written, consumerVars>>

\* The await of aclose() is over: consume_astream returns, or the pending
\* BaseException leaves it; either way the task is done.
TaskFinish ==
    /\ tpc = "closed"
    /\ tpc' = "done"
    /\ UNCHANGED <<endpointVars, cur, produced, outcome, raised, cancelled,
                   callback_events, channelVars, consumerVars>>

\* The aggregator records a callback event of the running execution.
RecordCallbackEvent(r) ==
    /\ tpc \in {"iter", "send"}
    /\ Len(callback_events) < MaxCallbackEvents
    /\ callback_events' = Append(callback_events, r)
    /\ UNCHANGED <<endpointVars, producerVars, channelVars, consumerVars>>

\* -------------------------------------------------------------- _stream
\* async for chunk in streamer.receive_stream: an item arrives
Receive ==
    /\ cpc = "recv"
    /\ CanReceive
    /\ chunk' = Head(buf)
    /\ buf' = Tail(buf)
    /\ readLog' = Append(readLog, Head(buf))
    /\ cpc' = "got"
    /\ UNCHANGED <<endpointVars, producerVars, callback_events, cap,
                   sendClosed, closes, written, has_sent_metadata, events, streamExc, awaits>>

\* async for chunk in streamer.receive_stream: the channel is closed and
\* drained, the loop ends
ReceiveEnd ==
    /\ cpc = "recv"
    /\ EndOfStream
    /\ cpc' = "end"
    /\ UNCHANGED <<endpointVars, producerVars, callback_events, channelVars,
                   chunk, has_sent_metadata, events, streamExc, awaits, readLog>>

\* if isinstance(chunk, BaseException): yield {"event": "error", ...}
YieldError ==
    /\ cpc = "got"
    /\ IsBaseException(chunk)
    /\ events' = Append(events, ErrorEvent(chunk))
    /\ cpc' = "raise"
    /\ UNCHANGED <<endpointVars, producerVars, callback_events, channelVars,
                   chunk, has_sent_metadata, streamExc, awaits, readLog>>

\* raise chunk
RaiseChunk ==
    /\ cpc = "raise"
    /\ streamExc' = chunk
    /\ cpc' = "raised"
    /\ UNCHANGED <<endpointVars, producerVars, callback_events, channelVars,
                   chunk, has_sent_metadata, events, awaits, readLog>>

\* if not has_sent_metadata and event_aggregator.callback_events:
\*     yield {"event": "metadata", ...}
YieldMetadata ==
    /\ cpc = "got"
    /\ ~IsBaseException(chunk)
    /\ MetadataDue(has_sent_metadata, callback_events)
    /\ events' = Append(events, MetadataEvent(callback_events))
    /\ cpc' = "meta"
    /\ UNCHANGED <<endpointVars, producerVars, callback_events, channelVars,
                   chunk, has_sent_metadata, streamExc, awaits, readLog>>

\* has_sent_metadata = True (after the metadata event only);
\* yield {"data": serializer.dumps(chunk).decode("utf-8"), "event": "data"}
YieldData ==
    /\ \/ cpc = "meta" /\ has_sent_metadata' = TRUE
       \/ /\ cpc = "got"
          /\ ~IsBaseException(chunk)
          /\ ~MetadataDue(has_sent_metadata, callback_events)
          /\ has_sent_metadata' = has_sent_metadata
    /\ events' = Append(events, DataEvent(chunk.val))
    /\ cpc' = "recv"
    /\ UNCHANGED <<endpointVars, producerVars, callback_events, channelVars,
                   chunk, streamExc, awaits, readLog>>

\* yield {"event": "end"}
YieldEnd ==
    /\ cpc = "end"
    /\ events' = Append(events, EndEvent)
    /\ cpc' = "await_task"
    /\ UNCHANGED <<endpointVars, producerVars, callback_events, channelVars,
                   chunk, has_sent_metadata, streamExc, awaits, readLog>>

\* A variant that returns without waiting for the task.
AwaitTaskNoWait ==
    /\ cpc = "await_task"
    /\ cpc' = "returned"
    /\ UNCHANGED <<endpointVars, producerVars, callback_events, channelVars,
                   chunk, has_sent_metadata, events, streamExc, awaits, readLog>>

\* await task: completes when the task is done, and re-raises the exception
\* the task ended with
AwaitTask ==
    /\ cpc = "await_task"
    /\ tpc = "done"
    /\ awaits' = awaits + 1
    /\ IF TaskExc # NoExc
          THEN cpc' = "raised" /\ streamExc' = TaskExc
          ELSE cpc' = "returned" /\ streamExc' = streamExc
    /\ UNCHANGED <<endpointVars, producerVars, callback_events, channelVars,
                   chunk, has_sent_metadata, events, readLog>>

\* The positions at which _stream is suspended: in receive, at a yield, in
\* `await task`.
Suspended == cpc \in {"recv", "meta", "raise", "await_task"}

\* The HTTP client disconnects: the suspended generator is cancelled or
\* closed and never resumed.  _stream has no finally clause.
Abandon ==
    /\ Suspended
    /\ cpc' = "abandoned"
    /\ UNCHANGED <<endpointVars, producerVars, callback_events, channelVars,
                   chunk, has_sent_metadata, events, streamExc, awaits, readLog>>

\* ------------------------------------------------------------------ Next
Next ==
    \/ ParseBody
    \/ BuildConfig
    \/ ValidateInput
    \/ StartStreaming
    \/ AddBackgroundInvoke
    \/ BackgroundInvokeStart
    \/ BackgroundInvokeEnd
    \/ \E c \in Chunks : AstreamNext(c)
    \/ AstreamStop
    \/ \E e \in AllExc : AstreamRaise(e)
    \/ AstreamRaiseBase
    \/ SendChunk
    \/ SendFailure
    \/ CancelSend
    \/ CancelSendFailure
    \/ CancelAclose
    \/ Aclose
    \/ TaskFinish
    \/ \E r \in RunIds : RecordCallbackEvent(r)
    \/ Receive
    \/ ReceiveEnd
    \/ YieldError
    \/ RaiseChunk
    \/ YieldMetadata
    \/ YieldData
    \/ YieldEnd
    \/ AwaitTask
    \/ Abandon

Spec == Init /\ [][Next]_vars

\* The event loop runs every task that can run, and a client that stays
\* connected goes on reading.  Nothing obliges the client to stay, nor the
\* aggregator to record.
EndpointStep ==
    \/ ParseBody
    \/ BuildConfig
    \/ ValidateInput
    \/ StartStreaming
    \/ AddBackgroundInvoke
    \/ BackgroundInvokeStart
    \/ BackgroundInvokeEnd
ProducerStep ==
    \/ \E c \in Chunks : AstreamNext(c)
    \/ AstreamStop
    \/ \E e \in AllExc : AstreamRaise(e)
    \/ AstreamRaiseBase
    \/ SendChunk
    \/ SendFailure
    \/ Aclose
    \/ TaskFinish
ConsumerStep ==
    \/ Receive
    \/ ReceiveEnd
    \/ YieldError
    \/ RaiseChunk
    \/ YieldMetadata
    \/ YieldData
    \/ YieldEnd
    \/ AwaitTask

LiveSpec ==
    /\ Init
    /\ [][Next]_vars
    /\ WF_vars(EndpointStep)
    /\ WF_vars(ProducerStep)
    /\ WF_vars(ConsumerStep)

\* The endpoint alone, up to its response, from every request and every
\* stored configuration.
ConfigNext ==
    \/ ParseBody
    \/ BuildConfig
    \/ ValidateInput
    \/ StartStreaming
    \/ AddBackgroundInvoke

ConfigSpec == ConfigInit /\ [][ConfigNext]_vars

\* ============================================================== claims
EventsOf(kind) == SelectSeq(events, LAMBDA ev : ev.event = kind)
Count(kind) == Len(EventsOf(kind))
\* The events the client saw, without the metadata event.
WithoutMetadata == SelectSeq(events, LAMBDA ev : ev.event # "metadata")
\* The data events of the chunks cs, in order.
DataEventsOf(cs) == [i \in 1..Len(cs) |-> DataEvent(cs[i])]
\* The texts an event carries to the client.
Texts(ev) ==
    IF ev.event = "data" THEN {ev.data.json}
    ELSE IF ev.event = "metadata" THEN {ev.data.run_id}
    ELSE IF ev.event = "error" THEN {ev.data.message}
    ELSE {}
GenericError == [status_code |-> 500, message |-> "Internal Server Error"]
StreamEnded == cpc \in {"returned", "raised", "abandoned"}

\* C1: a run whose engine yields N chunks and finishes without raising, read
\* to its end, yields at most one metadata event first, then the N data
\* events in production order, then one end event and nothing else.
C1_CleanRunEvents ==
    (outcome = "ok" /\ cpc = "returned") =>
        LET rest == IF events # <<>> /\ events[1].event = "metadata"
                       THEN Tail(events) ELSE events
        IN  rest = DataEventsOf(produced) \o <<EndEvent>>

\* C2: a run whose engine raises an Exception after K chunks never yields an
\* end event; once the failure marker is read the client has seen the K data
\* events in production order and then one error event, the last event; and
\* _stream ends by raising the exception it read.
C2_FailedRunEvents ==
    outcome = "exc" =>
        /\ Count("end") = 0
        /\ cpc \notin {"end", "await_task", "returned"}
        /\ cpc \in {"raise", "raised"} =>
              /\ WithoutMetadata = DataEventsOf(produced) \o <<ErrorEvent(raised)>>
              /\ events[Len(events)].event = "error"
              /\ Count("error") = 1
        /\ cpc = "raised" => streamExc = raised /\ streamExc = chunk

\* The same statement for the runs whose task is not cancelled.
FailedRunEventsUnlessCancelled == cancelled \/ C2_FailedRunEvents

\* C3: every error event carries the constant payload, the raised exception's
\* text is in no event, and the events are the same whichever exception was
\* raised: putting any other exception in the place of the one read leaves
\* the sequence unchanged.
C3_GenericError ==
    /\ \A i \in DOMAIN events :
          /\ events[i].event = "error" => events[i].data = GenericError
          /\ raised.kind = "exc" => raised.msg \notin Texts(events[i])
    /\ \A e \in AllExc :
          events = [i \in DOMAIN events |->
                       IF events[i].event = "error" THEN ErrorEvent(e)
                       ELSE events[i]]

C3_Witness ==
    /\ Count("error") = 1
    /\ Count("data") = 1
    /\ raised = Exc("TimeoutError", "x")

\* C4: the metadata event is yielded at most once.
C4_MetadataAtMostOnce == Count("metadata") <= 1

C4_Witness ==
    /\ Count("metadata") = 1
    /\ Len(callback_events) = MaxCallbackEvents
    /\ Count("data") >= 2
    /\ cpc = "returned"

\* C5: no data event is yielded before the metadata event.
C5_MetadataBeforeData ==
    \A i, j \in DOMAIN events :
        (events[i].event = "metadata" /\ events[j].event = "data") => i < j

C5_Witness ==
    /\ Count("metadata") = 1
    /\ events[1].event = "data"

\* C6: a streaming run whose client keeps reading eventually yields a
\* terminal event, end or error, and never more than one of them: a read of
\* the closed, drained channel ends the loop instead of hanging.
C6_TerminalEvent ==
    /\ [](Count("end") + Count("error") <= 1)
    /\ (cpc = "recv") ~> (Count("end") + Count("error") = 1 \/ cpc = "abandoned")

C6_Witness ==
    /\ sendClosed
    /\ cpc = "await_task"
    /\ Count("end") = 1
    /\ Count("data") = MaxChunks

\* C7: in a run without a failure marker, _stream has not finished before
\* the background task is done: it ends only through `await task`.
C7_TaskDoneBeforeReturn ==
    (cpc \in {"returned", "raised"} /\ Count("error") = 0) =>
        (tpc = "done" /\ awaits = 1)

C7_Witness ==
    /\ cpc = "returned"
    /\ outcome = "ok"
    /\ tpc = "done"
    /\ Count("end") = 1

\* C8: on every way _stream can end (normal completion, a failure marker,
\* the client gone) the task has been awaited exactly once.
C8_AwaitedExactlyOnce == StreamEnded => awaits = 1

\* C9: after the client has disconnected the background task still runs to
\* completion.
C9_TaskCompletesAfterDisconnect == (cpc = "abandoned") ~> (tpc = "done")

\* C10: a valid non-streaming request is answered {"status": "ok"}, with no
\* run identifier and no event stream, before the invocation has run, and
\* the answer is the same whether the invocation later succeeds or fails.
C10_ImmediateAck ==
    /\ [](invoke # "none" =>
            /\ response = Ack
            /\ DOMAIN response = {"status"}
            /\ epc = "responded"
            /\ tpc = "not_created" /\ cpc = "not_started" /\ events = <<>>)
    /\ []((epc = "responded" /\ ~req.stream) => invoke # "none")
    /\ [][invoke' \in {"running", "ok", "failed"} => response = Ack]_vars
    /\ [][response = Ack => response' = Ack]_vars

C10_Witness ==
    /\ invoke = "failed"
    /\ response = Ack

\* C11: a request whose body is malformed JSON, or whose input fails the
\* input schema, is rejected with a validation error, and no execution is
\* started or scheduled for it: neither the streaming task nor the
\* background invocation, at any time.
C11_RejectedBeforeExecution ==
    /\ (~req.jsonOk \/ ~req.inputOk) =>
          /\ tpc = "not_created"
          /\ cpc = "not_started"
          /\ invoke = "none"
          /\ outcome = "none"
          /\ epc \notin {"branch", "responded"}
          /\ response \in {NoResponse, ValidationError}
    /\ epc = "rejected" =>
          /\ response = ValidationError
          /\ ~req.jsonOk \/ ~req.inputOk

C11_Witness ==
    /\ epc = "rejected"
    /\ req.jsonOk
    /\ ~req.inputOk
    /\ req.stream

\* C12: the end event is never yielded while the background task is still
\* running.
C12_EndAfterTaskDone == Count("end") >= 1 => tpc = "done"

\* C13: the task closes the sending end exactly once on every way out of
\* consume_astream (engine finished, engine raised, the write of the failure
\* marker failed, cancellation), never before it has left the try statement,
\* and nothing is written once it is closed.
C13_ClosedExactlyOnce ==
    /\ [](/\ closes <= 1
          /\ (closes = 1) <=> (tpc \in {"closed", "done"})
          /\ (closes = 1) <=> sendClosed)
    /\ [][sendClosed => written' = written]_vars

C13_Witness ==
    /\ tpc = "done"
    /\ outcome = "exc"
    /\ cancelled
    /\ written = <<>>
    /\ closes = 1

\* C14: at most one failure marker is written, and it is the last item
\* written; the same holds of what the consumer reads.
C14_OneMarkerLast ==
    \A log \in {written, readLog} :
        \A i \in DOMAIN log : IsBaseException(log[i]) => i = Len(log)

C14_Witness ==
    /\ Len(readLog) = 3
    /\ IsBaseException(readLog[3])
    /\ tpc = "done"

IsPrefix(a, b) == Len(a) <= Len(b) /\ \A i \in DOMAIN a : a[i] = b[i]
ChunkVals(log) ==
    LET cs == SelectSeq(log, LAMBDA it : ~IsBaseException(it))
    IN  [i \in DOMAIN cs |-> cs[i].val]
\* The chunk of the suspended write, if the task is in send(chunk).
PendingChunk == IF tpc = "send" THEN <<cur.val>> ELSE <<>>

C16_ErrorObserved ==
    (outcome = "exc" /\ ~cancelled /\ tpc = "done" /\ StreamEnded) =>
        streamExc = raised

\* C17: when the aggregator holds a callback event at the time the failure
\* marker is read, a metadata event precedes the error event.
C17_MetadataBeforeError ==
    \A i \in DOMAIN events :
        (events[i].event = "error" /\ callback_events # <<>>) =>
            \E j \in 1..(i - 1) : events[j].event = "metadata"

C17_Witness ==
    /\ events = <<ErrorEvent(raised)>>
    /\ produced = <<>>
    /\ callback_events # <<>>

\* C18: an end event is yielded only when the agent finished without raising.
C18_EndOnlyOnSuccess == Count("end") >= 1 => outcome = "ok"

C18_Witness ==
    /\ outcome = "base"
    /\ Count("end") = 1
    /\ cpc = "raised"
    /\ streamExc = BaseExc

\* C19: the configuration handed to the agent has configurable.user_id equal
\* to the cookie and configurable.thread_id / assistant_id equal to the
\* body's values, whatever the stored configuration holds for these keys, and
\* neither the stored configuration nor its "configurable" dict ever changes.
C19_ConfigForRequest ==
    /\ [](config # "none" =>
            LET conf == heap[heap[config]["configurable"]]
            IN  /\ conf["user_id"] = req.user_id
                /\ conf["thread_id"] = req.thread_id
                /\ conf["assistant_id"] = req.assistant_id)
    /\ [][heap'["cfg0"] = heap["cfg0"] /\ heap'["conf0"] = heap["conf0"]]_vars

C19_Witness ==
    /\ epc = "responded"
    /\ req.stream
    /\ req.user_id = "u2"
    /\ "callbacks" \in DOMAIN heap[config]
    /\ DOMAIN heap["conf0"] = RequestKeys \cup {"model"}
    /\ heap["conf0"]["user_id"] = "stored"
    /\ "callbacks" \notin DOMAIN heap["cfg0"]

====
